---- MODULE Spec2Model ----
(***************************************************************************)
(* Cozy Smart Mama Hub (catsandbabies.py): the daily selector, the history *)
(* fetcher with its normaliser, the day payload assembler, the GET router  *)
(* and the page's history renderer.                                         *)
(*                                                                          *)
(* Python values are modelled as follows.                                   *)
(*   - a list is a sequence; Python's 0-based items[i] is items[i + 1];     *)
(*   - a dict is a function from its keys (a record);                       *)
(*   - a JSON scalar is a record [t, i, s]: t is "null", "int" or "str",    *)
(*     i the integer and s the string (0 and "" when unused), so that None, *)
(*     numbers and strings can sit in one field;                            *)
(*   - a call that can raise returns a record whose field raised names the  *)
(*     exception ("" when the call returned).                               *)
(* The long prose items of the content lists are abbreviated to their       *)
(* leading words; lengths and order are those of the source.                *)
(***************************************************************************)
EXTENDS Integers, Sequences, FiniteSets, TLC

(* ------------------------------------------------------------------ *)
(* Content                                                            *)
(* ------------------------------------------------------------------ *)

NEW_MOM_TIPS ==
  << "If you did one small kind thing", "Sleep isn't a moral issue",
     "If you feel overwhelmed", "Feeding the baby is the goal",
     "A crying baby is not a failing parent", "If visitors add work",
     "Gentle reminder: you don't need to bounce back",
     "Try the minimum viable routine" >>

DEVOPS_FACTS ==
  << "Blameless postmortems work", "Idempotency is self-care",
     "Good alerts are actionable", "SLOs are empathy tools",
     "The fastest incident response", "Backpressure is a kindness",
     "You build it, you run it" >>

COZY_ANIME_VIBES ==
  << "Forest spirit moment", "Soft animation rule", "Kindness quest",
     "Tiny heroism", "Gentle magic", "Cozy soundtrack" >>

POWER_COUPLE_CHALLENGES ==
  << [ title |-> "The 7-Minute Hand-Off",
       why   |-> "Reduce friction + keep teamwork alive.",
       steps |-> << "One person gets 7 minutes", "Other person handles", "Switch" >> ],
     [ title |-> "Two-Truths Status Update",
       why   |-> "Stay connected without a long talk.",
       steps |-> << "Each share", "No fixing", "Optional: one tiny ask" >> ],
     [ title |-> "Incident Command Lite",
       why   |-> "When everything's on fire, roles help.",
       steps |-> << "Pick roles for 20 minutes", "Define goal", "After: 30-second retro" >> ] >>

CAT_CORNER ==
  << "Cat pro-tip: put a soft blanket", "If the litter box smell suddenly changes",
     "A scratching post", "Keep dangling strings/ribbons out of reach" >>

LOCAL_FUN_FACTS ==
  << "Honey never spoils", "Octopuses have three hearts", "Bananas are berries",
     "The dot over an i or j", "Cats have fewer taste receptors",
     "The first computer bug" >>

KIND_REMINDERS ==
  << "You are not behind", "Your worth is not measured in output",
     "Asking for help is senior-level engineering",
     "You can be brilliant and exhausted" >>

\* The module's content lists by name, as the module defines them.
CONTENT ==
  [ NEW_MOM_TIPS            |-> NEW_MOM_TIPS,
    DEVOPS_FACTS            |-> DEVOPS_FACTS,
    COZY_ANIME_VIBES        |-> COZY_ANIME_VIBES,
    POWER_COUPLE_CHALLENGES |-> POWER_COUPLE_CHALLENGES,
    CAT_CORNER              |-> CAT_CORNER,
    LOCAL_FUN_FACTS         |-> LOCAL_FUN_FACTS,
    KIND_REMINDERS          |-> KIND_REMINDERS ]

(* ------------------------------------------------------------------ *)
(* Dates                                                              *)
(* ------------------------------------------------------------------ *)

\* The calendar dates the model draws from (datetime.date values).
Dates ==
  { [year |-> 2024, month |-> 1,  day |-> 1],
    [year |-> 2024, month |-> 1,  day |-> 2],
    [year |-> 2024, month |-> 7,  day |-> 20],
    [year |-> 2024, month |-> 12, day |-> 31] }

\* "%02d"
Pad2(n) == IF n < 10 THEN "0" \o ToString(n) ELSE ToString(n)

\* "%04d"
Pad4(n) ==
  IF n < 10 THEN "000" \o ToString(n)
  ELSE IF n < 100 THEN "00" \o ToString(n)
  ELSE IF n < 1000 THEN "0" \o ToString(n)
  ELSE ToString(n)

\* datetime.date.isoformat(): YYYY-MM-DD
isoformat(d) == Pad4(d.year) \o "-" \o Pad2(d.month) \o "-" \o Pad2(d.day)

\* hashlib.sha256(s.encode("utf-8")).hexdigest()[:8] for the ISO strings of
\* Dates, as the eight hexadecimal digits, most significant first.
SHA256_HEX8 ==
  [ s \in { isoformat(d) : d \in Dates } |->
      CASE s = "2024-01-01" -> << 4, 1, 11, 6, 2, 15, 11, 4 >>    \* 41b62fb4
        [] s = "2024-01-02" -> << 9, 2, 2, 15, 7, 4, 15, 4 >>     \* 922f74f4
        [] s = "2024-07-20" -> << 12, 8, 10, 1, 2, 12, 13, 5 >>   \* c8a12cd5
        [] s = "2024-12-31" -> << 13, 13, 8, 2, 3, 6, 5, 3 >> ]   \* dd823653

(* ------------------------------------------------------------------ *)
(* State                                                              *)
(* ------------------------------------------------------------------ *)

VARIABLES
  proc,      \* incarnation of the server process (restarts so far)
  calls,     \* the selector calls made so far, in order, with their results
  sumIn,     \* the parsed feed body handed to summarize_onthisday
  sumOut,    \* what summarize_onthisday did with sumIn ("" before the call)
  today,     \* datetime.date.today() of the last request
  request,   \* the last GET: who sent it (a client, the page), its target, its day
  feed,      \* what the history feed did during the last request
  built,     \* what build_day_data did during the last request
  response,  \* what the last request sent back (sent = FALSE: nothing)
  page,      \* the history card of the page after its last loadDayData
  lists,     \* the module's content lists, as the process holds them now
  served,    \* the requests served so far, in order, with what they returned
  pc,        \* where the handler stands in the request it is serving
  trace,     \* the calls made so far for the request being served
  queued,    \* connections accepted by the kernel and not yet handled
  recvd      \* parity of the chunks resp.read() has received so far

selVars == << proc, calls >>
sumVars == << sumIn, sumOut >>
srvVars == << today, request, feed, built, response, page >>
logVars == << lists, served >>
reqVars == << pc, trace, queued, recvd >>
vars == << proc, calls, sumIn, sumOut, today, request, feed, built, response, page,
           lists, served, pc, trace, queued, recvd >>

(* ------------------------------------------------------------------ *)
(* Daily selector                                                     *)
(* ------------------------------------------------------------------ *)

\* A seed salted by the process, as the built-in hash() of a string is: the
\* last digit moves with the incarnation of the process.
_seed_for_date_salted(d) ==
  LET h == SHA256_HEX8[isoformat(d)] IN [h EXCEPT ![8] = (h[8] + proc) % 16]

\* A seed that moves with the requests and calls served so far, as a draw
\* from a generator shared by all requests does.
_seed_for_date_counted(d) ==
  LET h == SHA256_HEX8[isoformat(d)] IN [h EXCEPT ![8] = (h[8] + Len(served)) % 16]

\* int(h[:8], 16): the seed is the 32-bit number these eight digits write
\* in base 16 (kept as digits: it does not fit a signed 32-bit integer).
_seed_for_date(d) == SHA256_HEX8[isoformat(d)]

RECURSIVE HexMod(_, _, _)
\* (acc * 16^Len(digits) + int(digits, 16)) % n, digit by digit
HexMod(digits, n, acc) ==
  IF digits = << >> THEN acc
  ELSE HexMod(Tail(digits), n, (acc * 16 + Head(digits)) % n)

\* seed % (len(items) + 1): one past the end for some seeds
DailyIndexOffByOne(seed, n) == HexMod(seed, n + 1, 0)

\* seed % len(items)
DailyIndex(seed, n) == HexMod(seed, n, 0)

\* items[idx] of Python: IndexError outside 0 .. len - 1
InRange(items, idx) == idx \in 0 .. (Len(items) - 1)

\* pick_daily(items, d). seed and idx are << >> when the call derived no
\* seed and computed no index.
pick_daily(items, d) ==
  IF Len(items) = 0
  THEN [raised |-> "", seed |-> << >>, idx |-> << >>, ret |-> << "" >>]
  ELSE LET seed == _seed_for_date(d)
           idx == DailyIndex(seed, Len(items))
       IN  IF InRange(items, idx)
           THEN [raised |-> "", seed |-> << seed >>, idx |-> << idx >>,
                 ret |-> << items[idx + 1] >>]
           ELSE [raised |-> "IndexError", seed |-> << seed >>, idx |-> << idx >>,
                 ret |-> << >>]

\* {} of Python
EmptyDict == [k \in {} |-> ""]

\* pick_daily_obj(items, d)
pick_daily_obj(items, d) ==
  IF Len(items) = 0
  THEN [raised |-> "", seed |-> << >>, idx |-> << >>, ret |-> << EmptyDict >>]
  ELSE LET seed == _seed_for_date(d)
           idx == DailyIndex(seed, Len(items))
       IN  IF InRange(items, idx)
           THEN [raised |-> "", seed |-> << seed >>, idx |-> << idx >>,
                 ret |-> << items[idx + 1] >>]
           ELSE [raised |-> "IndexError", seed |-> << seed >>, idx |-> << idx >>,
                 ret |-> << >>]

(* ------------------------------------------------------------------ *)
(* The selector called directly                                       *)
(* ------------------------------------------------------------------ *)

\* Longest log of selector calls kept, and most restarts of the process.
MaxCalls == 3
MaxRestarts == 1

\* One entry of calls: who was called, with what, in which process, and
\* what the call did.
CallOf(fn, items, d, res) ==
  [fn |-> fn, items |-> items, iso |-> isoformat(d), proc |-> proc, res |-> res]

\* The lists the logged calls draw from.
StrLists == { CAT_CORNER, COZY_ANIME_VIBES }
ObjLists == { POWER_COUPLE_CHALLENGES }

\* Every prefix of every content list, the empty list included.
Prefixes(L) == { SubSeq(L, 1, k) : k \in 0 .. Len(L) }
StrPrefixLists ==
  UNION { Prefixes(L) : L \in { NEW_MOM_TIPS, DEVOPS_FACTS, COZY_ANIME_VIBES,
                                CAT_CORNER, KIND_REMINDERS, LOCAL_FUN_FACTS } }
ObjPrefixLists == Prefixes(POWER_COUPLE_CHALLENGES)

\* A caller calls pick_daily(items, d).
CallPickDaily ==
  /\ Len(calls) < MaxCalls
  /\ \E items \in StrLists, d \in Dates :
       calls' = Append(calls, CallOf("pick_daily", items, d, pick_daily(items, d)))
  /\ UNCHANGED << proc, sumVars, srvVars, logVars, reqVars >>

\* A caller calls pick_daily_obj(items, d).
CallPickDailyObj ==
  /\ Len(calls) < MaxCalls
  /\ \E items \in ObjLists, d \in Dates :
       calls' = Append(calls, CallOf("pick_daily_obj", items, d, pick_daily_obj(items, d)))
  /\ UNCHANGED << proc, sumVars, srvVars, logVars, reqVars >>

\* The process is stopped and started again (main runs anew).
Restart ==
  /\ proc < MaxRestarts
  /\ proc' = proc + 1
  /\ lists' = CONTENT
  /\ UNCHANGED << calls, sumVars, srvVars, served, reqVars >>

\* One call of pick_daily on any prefix of a content list.
PickDailyOnce ==
  /\ calls = << >>
  /\ \E items \in StrPrefixLists, d \in Dates :
       calls' = << CallOf("pick_daily", items, d, pick_daily(items, d)) >>
  /\ UNCHANGED << proc, sumVars, srvVars, logVars, reqVars >>

\* One call of pick_daily_obj on any prefix of the challenge list.
PickDailyObjOnce ==
  /\ calls = << >>
  /\ \E items \in ObjPrefixLists, d \in Dates :
       calls' = << CallOf("pick_daily_obj", items, d, pick_daily_obj(items, d)) >>
  /\ UNCHANGED << proc, sumVars, srvVars, logVars, reqVars >>

(* ------------------------------------------------------------------ *)
(* JSON values of the feed                                            *)
(* ------------------------------------------------------------------ *)

JNull == [t |-> "null", i |-> 0, s |-> ""]
JInt(n) == [t |-> "int", i |-> n, s |-> ""]
JStr(str) == [t |-> "str", i |-> 0, s |-> str]

\* bool(v) of a scalar
Truthy(v) ==
  CASE v.t = "null" -> FALSE
    [] v.t = "int"  -> v.i # 0
    [] v.t = "str"  -> v.s # ""

\* One element met when iterating over a feed field: a JSON object with its
\* members, or anything else (a number, a string, a character, a key).
DictItem(members) == [isdict |-> TRUE, d |-> members]
NonDictItem == [isdict |-> FALSE, d |-> EmptyDict]

\* The value of a member of the feed's top-level object. t is its JSON type;
\* items is what iterating over it yields: its elements for a list, its
\* characters for a string, its keys for an object (no character and no key
\* is a dict); i is its value for a number.
ListField(items) == [t |-> "list", i |-> 0, items |-> items]
StrField(n) == [t |-> "str", i |-> 0, items |-> [k \in 1 .. n |-> NonDictItem]]
DictField(n) == [t |-> "dict", i |-> 0, items |-> [k \in 1 .. n |-> NonDictItem]]
IntField(n) == [t |-> "int", i |-> n, items |-> << >>]
NullField == [t |-> "null", i |-> 0, items |-> << >>]

\* bool(v) of a member value
FieldTruthy(v) ==
  CASE v.t \in {"list", "str", "dict"} -> v.items # << >>
    [] v.t = "int"  -> v.i # 0
    [] v.t = "null" -> FALSE

\* The parsed body: a JSON object with its members d, or another JSON value
\* (t its type, i its number or its length).
DictBody(members) == [t |-> "dict", i |-> 0, d |-> members]
OtherBody(t, i) == [t |-> t, i |-> i, d |-> EmptyDict]

\* bool(payload)
BodyTruthy(b) ==
  CASE b.t = "dict" -> DOMAIN b.d # {}
    [] b.t = "null" -> FALSE
    [] OTHER        -> b.i # 0

(* ------------------------------------------------------------------ *)
(* summarize_onthisday                                                *)
(* ------------------------------------------------------------------ *)

\* dict.get(key): None when the key is missing
DictGet(d, key) == IF key \in DOMAIN d THEN d[key] ELSE JNull

\* payload.get(key) or []
FieldOrEmpty(d, key) ==
  IF key \in DOMAIN d /\ FieldTruthy(d[key]) THEN d[key] ELSE ListField(<< >>)

\* it.get("text") or ""
TextOf(it) ==
  LET text == DictGet(it.d, "text") IN IF Truthy(text) THEN text ELSE JStr("")

\* {"year": year, "text": text} of one record
Cleaned(it) == [year |-> DictGet(it.d, "year"), text |-> TextOf(it)]

RECURSIVE CleanLoop(_, _)
\* the for loop of pick_top: cleaned after the items left
CleanLoop(items, cleaned) ==
  IF items = << >> THEN cleaned
  ELSE LET it == Head(items) IN
       IF ~ it.isdict THEN CleanLoop(Tail(items), cleaned)
       ELSE IF Truthy(TextOf(it))
            THEN CleanLoop(Tail(items), Append(cleaned, Cleaned(it)))
            ELSE CleanLoop(Tail(items), cleaned)

\* seq[:n]
Slice(seq, n) == SubSeq(seq, 1, IF n < Len(seq) THEN n ELSE Len(seq))

\* for it in items: a number is not iterable
Iterable(field) == field.t \in {"list", "str", "dict"}

\* pick_top that cuts the list before it filters it
pick_top_cut_first(items, n) == CleanLoop(Slice(items, n), << >>)

\* pick_top(items, n), for an iterable items
pick_top(items, n) == Slice(CleanLoop(items, << >>), n)

\* Bullet that tags every record an event and keeps the text alone
BulletEventText(kind, e) == [kind |-> JStr("event"), text |-> e.text]

\* {"kind": kind, **e}
Bullet(kind, e) ==
  [k \in {"kind"} \cup DOMAIN e |-> IF k \in DOMAIN e THEN e[k] ELSE JStr(kind)]

\* The caps of the two categories.
EventCap == 3
BirthCap == 2

\* summarize_onthisday(payload): out is the bullet list when it returned
summarize_onthisday(payload) ==
  IF payload.t # "dict" THEN [raised |-> "", out |-> << >>]
  ELSE LET events == FieldOrEmpty(payload.d, "events")
           births == FieldOrEmpty(payload.d, "births")
       IN  IF ~ Iterable(events) \/ ~ Iterable(births)
           THEN [raised |-> "TypeError", out |-> << >>]
           ELSE LET es == pick_top(events.items, EventCap)
                    bs == pick_top(births.items, BirthCap)
                IN  [raised |-> "",
                     out |-> [k \in 1 .. Len(es) |-> Bullet("event", es[k])]
                             \o [k \in 1 .. Len(bs) |-> Bullet("birth", bs[k])]]

(* ------------------------------------------------------------------ *)
(* The normaliser called directly                                     *)
(* ------------------------------------------------------------------ *)

\* Longest "events" and "births" lists of the bodies drawn.
MaxEvents == 4
MaxBirths == 3

\* The records the drawn "events" lists are made of.
MoonLanding == DictItem([year |-> JInt(1969), text |-> JStr("Moon landing")])
EmptyText == DictItem([year |-> JNull, text |-> JStr("")])
NoYear == DictItem([text |-> JStr("Wall falls")])
EventPool == { MoonLanding, EmptyText, NoYear, NonDictItem }

\* The records the drawn "births" lists are made of.
NoText == DictItem([year |-> JInt(1970)])
BornA == DictItem([year |-> JInt(1935), text |-> JStr("Born A")])
BornB == DictItem([year |-> JNull, text |-> JStr("Born B")])
BirthPool == { NoText, BornA, BornB }

SeqsUpTo(S, n) == UNION { [1 .. k -> S] : k \in 0 .. n }

\* Bodies of the documented shape.
ShapedBodies ==
  { DictBody([events |-> ListField(es), births |-> ListField(bs)]) :
      es \in SeqsUpTo(EventPool, MaxEvents), bs \in SeqsUpTo(BirthPool, MaxBirths) }

\* Bodies of another shape: a top-level value that is no object, an object
\* without the two members, members that are no lists.
OddBodies ==
  { OtherBody("list", 2), OtherBody("list", 0), OtherBody("int", 7),
    OtherBody("str", 5), OtherBody("null", 0),
    DictBody(EmptyDict),
    DictBody([deaths |-> ListField(<< MoonLanding >>)]),
    DictBody([events |-> ListField(<< MoonLanding >>)]),
    DictBody([births |-> ListField(<< BornA >>)]),
    DictBody([events |-> NullField, births |-> ListField(<< BornA, BornB >>)]),
    DictBody([events |-> IntField(5), births |-> ListField(<< BornA >>)]),
    DictBody([events |-> IntField(0), births |-> ListField(<< BornA >>)]),
    DictBody([events |-> ListField(<< MoonLanding >>), births |-> IntField(1)]),
    DictBody([events |-> StrField(4), births |-> DictField(2)]),
    DictBody([events |-> DictField(1), births |-> StrField(0)]) }

NotCalled == [called |-> FALSE, raised |-> "", out |-> << >>]

\* A caller calls summarize_onthisday(sumIn).
CallSummarize ==
  /\ ~ sumOut.called
  /\ LET r == summarize_onthisday(sumIn) IN
       sumOut' = [called |-> TRUE, raised |-> r.raised, out |-> r.out]
  /\ UNCHANGED << sumIn, selVars, srvVars, logVars, reqVars >>

(* ------------------------------------------------------------------ *)
(* The history feed                                                   *)
(* ------------------------------------------------------------------ *)

\* None of Python, as a parsed body (json.loads("null") is None too).
None == OtherBody("null", 0)

\* What the feed does during one request: open is the exception urlopen
\* raises ("" when it returns a response), status the response's status,
\* read the exception resp.read() raises ("" when it returns the bytes),
\* utf8 and json whether the bytes decode and parse, body the parsed value.
FeedOutcome(open, status, read, utf8, json, body) ==
  [open |-> open, status |-> status, read |-> read, utf8 |-> utf8, json |-> json,
   body |-> body]

FeedRaises(exc) == FeedOutcome(exc, 0, "", TRUE, TRUE, None)
FeedStatus(status) == FeedOutcome("", status, "", TRUE, TRUE, None)
FeedReadRaises(exc) == FeedOutcome("", 200, exc, TRUE, TRUE, None)
FeedBadUtf8 == FeedOutcome("", 200, "", FALSE, TRUE, None)
FeedBadJson == FeedOutcome("", 200, "", TRUE, FALSE, None)
FeedBody(body) == FeedOutcome("", 200, "", TRUE, TRUE, body)

\* The feed was not asked.
NoFeed == FeedOutcome("not asked", 0, "", TRUE, TRUE, None)

\* A text json.loads accepts (an escaped lone surrogate) and UTF-8 cannot encode.
LoneSurrogate == "<lone surrogate U+D800>"

\* The two feeds of the documented examples, and others.
MoonFeed == DictBody([events |-> ListField(<< MoonLanding >>), births |-> ListField(<< >>)])
EmptyTextFeed == DictBody([events |-> ListField(<< EmptyText >>)])
FullFeed ==
  DictBody([events |-> ListField(<< EmptyText, NoYear, MoonLanding, NonDictItem, NoYear,
                                    MoonLanding >>),
            births |-> ListField(<< NoText, BornB, BornA, BornA >>)])
SurrogateFeed ==
  DictBody([events |-> ListField(<< DictItem([text |-> JStr(LoneSurrogate)]) >>)])
NumberTextFeed ==
  DictBody([births |-> ListField(<< DictItem([year |-> JInt(0), text |-> JInt(42)]) >>)])

\* The outcomes the requests of the model draw from.
FeedOutcomes ==
  { FeedRaises("URLError"), FeedRaises("HTTPError"), FeedRaises("TimeoutError"),
    FeedStatus(204),
    FeedReadRaises("IncompleteRead"), FeedReadRaises("ConnectionResetError"),
    FeedReadRaises("TimeoutError"),
    FeedBadUtf8, FeedBadJson }
  \cup { FeedBody(b) : b \in OddBodies \cup { MoonFeed, EmptyTextFeed, FullFeed,
                                               SurrogateFeed, NumberTextFeed } }

\* except (urllib.error.URLError, urllib.error.HTTPError, TimeoutError,
\*         json.JSONDecodeError)
CaughtByFetch == { "URLError", "HTTPError", "TimeoutError", "JSONDecodeError" }

\* The except clause: None for a caught exception, the others propagate.
Except(exc) ==
  IF exc \in CaughtByFetch THEN [raised |-> "", ret |-> None]
  ELSE [raised |-> exc, ret |-> None]

\* try_fetch_wikimedia_onthisday(d), the feed doing f
try_fetch_wikimedia_onthisday(f) ==
  IF f.open # "" THEN Except(f.open)
  ELSE IF f.status # 200 THEN [raised |-> "", ret |-> None]
  ELSE IF f.read # "" THEN Except(f.read)
  ELSE IF ~ f.utf8 THEN Except("UnicodeDecodeError")
  ELSE IF ~ f.json THEN Except("JSONDecodeError")
  ELSE [raised |-> "", ret |-> f.body]

(* ------------------------------------------------------------------ *)
(* build_day_data                                                     *)
(* ------------------------------------------------------------------ *)

SAFE_DISCLAIMER ==
  "This page is for comfort + education only, not medical advice. If you're worried about your health or safety, contact a clinician or local emergency number."

\* SourceTag without the inner if: any fetched body counts as online.
SourceTagAnyBody(onthisday) == "wikimedia"

\* src after the two ifs: "wikimedia" only for a non-empty bullet list
SourceTag(onthisday) == IF onthisday # << >> THEN "wikimedia" ELSE "local"

\* DayData with the date written as the feed URL writes it (str(d.month),
\* str(d.day)) and no disclaimer.
DayDataUrlDate(d, p, onthisday, src) ==
  [date                   |-> ToString(d.month) \o "/" \o ToString(d.day),
   new_mom_tip            |-> p.tip,
   devops_fact            |-> p.devops,
   anime_vibe             |-> p.vibe,
   cat_corner             |-> p.cat,
   kind_reminder          |-> p.reminder,
   power_couple_challenge |-> p.challenge,
   fun_fact               |-> p.fun_fact,
   on_this_day            |-> onthisday,
   on_this_day_source     |-> src]

\* The returned dict. p holds the seven picks.
DayData(d, p, onthisday, src) ==
  [date                   |-> isoformat(d),
   safe_disclaimer        |-> SAFE_DISCLAIMER,
   new_mom_tip            |-> p.tip,
   devops_fact            |-> p.devops,
   anime_vibe             |-> p.vibe,
   cat_corner             |-> p.cat,
   kind_reminder          |-> p.reminder,
   power_couple_challenge |-> p.challenge,
   fun_fact               |-> p.fun_fact,
   on_this_day            |-> onthisday,
   on_this_day_source     |-> src]

\* The list each of the seven selector calls picks from, in the order of
\* the source.
PickOrder ==
  << "NEW_MOM_TIPS", "DEVOPS_FACTS", "COZY_ANIME_VIBES", "CAT_CORNER",
     "KIND_REMINDERS", "POWER_COUPLE_CHALLENGES", "LOCAL_FUN_FACTS" >>

\* The k-th selector call with a key of its own for the cat corner: that
\* list is hashed apart from the others (here under another day's string).
PickCallOwnSeed(ls, k, d) ==
  IF PickOrder[k] = "POWER_COUPLE_CHALLENGES"
  THEN pick_daily_obj(ls[PickOrder[k]], d)
  ELSE IF PickOrder[k] = "CAT_CORNER"
  THEN pick_daily(ls[PickOrder[k]], CHOOSE e \in Dates : e # d)
  ELSE pick_daily(ls[PickOrder[k]], d)

\* The k-th selector call of build_day_data, the content lists being ls.
PickCall(ls, k, d) ==
  IF PickOrder[k] = "POWER_COUPLE_CHALLENGES"
  THEN pick_daily_obj(ls[PickOrder[k]], d)
  ELSE pick_daily(ls[PickOrder[k]], d)

\* The seven selector calls, in the order of the source.
DailyPicksOn(ls, d) == [k \in 1 .. Len(PickOrder) |-> PickCall(ls, k, d)]

\* DailyPicksOn the lists as the module defines them, computed once a day.
DailyPicksOf == [d \in Dates |-> DailyPicksOn(CONTENT, d)]

\* The seven picks of build_day_data(d), the content lists being ls.
DailyPicks(ls, d) == IF ls = CONTENT THEN DailyPicksOf[d] ELSE DailyPicksOn(ls, d)

\* The first exception of a sequence of call results ("" when none raised).
FirstRaised(rs) ==
  IF \A k \in 1 .. Len(rs) : rs[k].raised = "" THEN ""
  ELSE rs[CHOOSE k \in 1 .. Len(rs) :
            rs[k].raised # "" /\ \A j \in 1 .. (k - 1) : rs[j].raised = ""].raised

Raised(exc) == [raised |-> exc, doc |-> EmptyDict]
Returned(doc) == [raised |-> "", doc |-> doc]

\* build_day_data(today), the content lists being ls and the feed doing f
build_day_data(ls, d, f) ==
  LET rs == DailyPicks(ls, d) IN
  IF FirstRaised(rs) # "" THEN Raised(FirstRaised(rs))
  ELSE
    LET p == [tip |-> rs[1].ret[1], devops |-> rs[2].ret[1], vibe |-> rs[3].ret[1],
              cat |-> rs[4].ret[1], reminder |-> rs[5].ret[1],
              challenge |-> rs[6].ret[1], fun_fact |-> rs[7].ret[1]]
        wiki_payload == try_fetch_wikimedia_onthisday(f)
    IN  IF wiki_payload.raised # "" THEN Raised(wiki_payload.raised)
        ELSE IF ~ BodyTruthy(wiki_payload.ret)
             THEN Returned(DayData(d, p, << >>, "local"))
             ELSE LET sm == summarize_onthisday(wiki_payload.ret) IN
                  IF sm.raised # "" THEN Raised(sm.raised)
                  ELSE Returned(DayData(d, p, sm.out, SourceTag(sm.out)))

(* ------------------------------------------------------------------ *)
(* HTTP server                                                        *)
(* ------------------------------------------------------------------ *)

\* A request target is the sequence of its lexical pieces: the path, then
\* "?" and the query, ";" and the parameters, "#" and the fragment.
Targets ==
  { << "/" >>, << "/index.html" >>, << "/health" >>, << "/api/daydata" >>,
    << "/nope" >>, << "/api/daydata/" >>, << "/Health" >>, << "?", "x=1" >>,
    << "/", "?", "x=1" >>, << "/index.html", "#", "top" >>,
    << "/health", "?", "deep=1" >>, << "/health", ";", "p" >>,
    << "/api/daydata", "?", "date=2020-02-02" >>, << "/nope", "?", "x=1" >> }

\* urlparse(self.path).path
urlparse_path(target) ==
  IF target = << >> \/ Head(target) \in {"?", ";", "#"} THEN "" ELSE Head(target)

\* A response body: text, the page, or the UTF-8 bytes of the JSON text of doc.
TextBody(text) == [kind |-> "text", text |-> text, doc |-> EmptyDict]
JsonBody(doc) == [kind |-> "json", text |-> "", doc |-> doc]

\* html_page().encode("utf-8"): the same static document on every call
HtmlPage == [kind |-> "html", text |-> "<!doctype html> Cozy Smart Mama Hub", doc |-> EmptyDict]

\* Handler._send(status, body, content_type)
_send(status, body, content_type) ==
  [sent |-> TRUE, raised |-> "", status |-> status, body |-> body,
   headers |-> [ContentType |-> content_type, CacheControl |-> "no-store"]]

\* The handler raised before sending: the connection is closed unanswered.
Unanswered(exc) ==
  [sent |-> FALSE, raised |-> exc, status |-> 0, body |-> TextBody(""),
   headers |-> [ContentType |-> "", CacheControl |-> ""]]

\* str.encode("utf-8") of the JSON text of data: a lone surrogate in a
\* bullet's text cannot be encoded (json.dumps with ensure_ascii=False
\* leaves it as it is).
Encodable(data) ==
  \A k \in 1 .. Len(data.on_this_day) :
     ~ (data.on_this_day[k].text.t = "str" /\ data.on_this_day[k].text.s = LoneSurrogate)

\* The /api/daydata branch of do_GET, given what build_day_data did.
SendDayData(b) ==
  IF b.raised # "" THEN Unanswered(b.raised)
  ELSE IF ~ Encodable(b.doc) THEN Unanswered("UnicodeEncodeError")
  ELSE _send(200, JsonBody(b.doc), "application/json; charset=utf-8")

NotBuilt == [called |-> FALSE, raised |-> "", doc |-> EmptyDict]
Built(b) == [called |-> TRUE, raised |-> b.raised, doc |-> b.doc]

\* Handler.do_GET for the request target, on the day d, the content lists
\* being ls and the feed doing f: what build_day_data did (when called) and
\* the response.
do_GET(ls, target, d, f) ==
  LET path == urlparse_path(target) IN
  IF path = "/" \/ path = "/index.html"
  THEN [built |-> NotBuilt, response |-> _send(200, HtmlPage, "text/html; charset=utf-8")]
  ELSE IF path = "/api/daydata"
  THEN LET b == build_day_data(ls, d, f) IN [built |-> Built(b), response |-> SendDayData(b)]
  ELSE IF path = "/health"
  THEN [built |-> NotBuilt, response |-> _send(200, TextBody("ok\n"), "text/plain; charset=utf-8")]
  ELSE [built |-> NotBuilt, response |-> _send(404, TextBody("Not found\n"), "text/plain; charset=utf-8")]

(* ------------------------------------------------------------------ *)
(* The page: the history card of loadDayData                          *)
(* ------------------------------------------------------------------ *)

\* String(v) of JavaScript for a JSON scalar
JsString(v) ==
  CASE v.t = "int"  -> ToString(v.i)
    [] v.t = "str"  -> v.s
    [] v.t = "null" -> "null"

\* li.textContent = (it.year ? (it.year + " - ") : "") + it.text
HistoryLine(it) ==
  (IF Truthy(it.year) THEN JsString(it.year) \o " - " ELSE "") \o JsString(it.text)

\* The three bullets the page shows when the payload has no history.
LOCAL_FALLBACK ==
  << "Today's theme: tiny wins count (especially the invisible ones).",
     "If you want: take one photo of something peaceful today (steam, window light, cat loaf).",
     "Engineer note: your system is under peak load. Reduce scope, protect rest, accept 'good enough.'" >>

\* The card as the static document has it, before any loadDayData.
InitialCard == [tag |-> "local fallback", list |-> << >>, note |-> "", sourceLabel |-> ""]

\* HistoryCard without the else branch's bullets: an empty history is shown
\* as it came.
HistoryCardNoFallback(data) ==
  [tag  |-> IF data.on_this_day # << >> THEN "history" ELSE "local fallback",
   list |-> [k \in 1 .. Len(data.on_this_day) |-> HistoryLine(data.on_this_day[k])],
   note |-> "",
   sourceLabel |-> "offline-friendly mode"]

\* The history block of loadDayData for the parsed response data.
HistoryCard(data) ==
  LET online == data.on_this_day_source = "wikimedia"
      label == IF online THEN "online: Wikimedia history feed" ELSE "offline-friendly mode"
  IN  IF data.on_this_day # << >>
      THEN [tag  |-> IF online THEN "Wikimedia feed" ELSE "history",
            list |-> [k \in 1 .. Len(data.on_this_day) |-> HistoryLine(data.on_this_day[k])],
            note |-> IF online
                     THEN "source: api.wikimedia.org/feed/v1/wikipedia/en/onthisday/all"
                     ELSE "",
            sourceLabel |-> label]
      ELSE [tag  |-> "local fallback",
            list |-> LOCAL_FALLBACK,
            note |-> "history feed unavailable; showing cozy fallback",
            sourceLabel |-> label]

(* ------------------------------------------------------------------ *)
(* The server at work                                                 *)
(* ------------------------------------------------------------------ *)

\* d1 is a later day than d2.
Later(d1, d2) ==
  \/ d1.year > d2.year
  \/ d1.year = d2.year /\ d1.month > d2.month
  \/ d1.year = d2.year /\ d1.month = d2.month /\ d1.day > d2.day

\* The earliest day of the model.
FirstDay == CHOOSE d \in Dates : \A e \in Dates : ~ Later(d, e)

\* No request was served yet.
NoRequest == [from |-> "", target |-> << >>, day |-> [year |-> 0, month |-> 0, day |-> 0]]

\* The content lists after a handler that marks the first step of the
\* challenge it returned as done: the dict is the list's own, not a copy.
ContentAfterStepDone(ls, b) ==
  IF b.called /\ b.raised = ""
  THEN LET cs == ls.POWER_COUPLE_CHALLENGES
           done(c) == IF c = b.doc.power_couple_challenge /\ c.steps # << >>
                      THEN [c EXCEPT !.steps = Tail(c.steps)] ELSE c
       IN  [ls EXCEPT !.POWER_COUPLE_CHALLENGES = [k \in 1 .. Len(cs) |-> done(cs[k])]]
  ELSE ls

\* The content lists after a request whose build_day_data did b: the
\* selectors index them, json.dumps reads the challenge dict returned by
\* reference, nothing assigns to them.
ContentAfter(ls, b) == ls

\* The server handles GET target sent by from; the feed, if asked, does f.
Serve(from, target, f) ==
  \E r \in { do_GET(lists, target, today, f) } :
    /\ request' = [from |-> from, target |-> target, day |-> today]
    /\ feed' = IF r.built.called THEN f ELSE NoFeed
    /\ built' = r.built
    /\ response' = r.response
    /\ lists' = ContentAfter(lists, r.built)

\* A client sends GET target. The feed does something only when it is asked.
Get ==
  /\ \E target \in Targets :
       IF urlparse_path(target) = "/api/daydata"
       THEN \E f \in FeedOutcomes : Serve("client", target, f)
       ELSE Serve("client", target, NoFeed)
  /\ UNCHANGED << today, page, selVars, sumVars, served, reqVars >>

\* The page runs loadDayData: it fetches /api/daydata and fills the card
\* (an unanswered request rejects the fetch and leaves the card as it is).
LoadDayData ==
  /\ \E f \in FeedOutcomes : Serve("page", << "/api/daydata" >>, f)
  /\ page' = IF response'.sent THEN HistoryCard(response'.body.doc) ELSE page
  /\ UNCHANGED << today, selVars, sumVars, served, reqVars >>

\* The local date changes.
Midnight ==
  /\ \E d \in Dates : Later(d, today) /\ today' = d
  /\ UNCHANGED << request, feed, built, response, page, selVars, sumVars, logVars, reqVars >>

(* ------------------------------------------------------------------ *)
(* Requests and calls kept in a log                                   *)
(* ------------------------------------------------------------------ *)

\* Longest log of requests and calls kept.
MaxServed == 3

\* The feed outcomes and the targets the logged requests draw from.
LogFeeds == { FeedRaises("URLError"), FeedBadUtf8, FeedBody(MoonFeed), FeedBody(FullFeed) }
LogTargets == { << "/api/daydata" >>, << "/health" >> }

\* The days the logged calls of build_day_data draw from.
LogDates == { d \in Dates : d.month = 1 }

\* One entry of served: the request or the call, and what it did.
ServedOf(by, target, d, f, b, resp) ==
  [by |-> by, target |-> target, day |-> d, feed |-> f, built |-> b, response |-> resp]

\* A client sends GET target; the request is logged with its response.
GetLogged ==
  /\ Len(served) < MaxServed
  /\ \E target \in LogTargets :
       IF urlparse_path(target) = "/api/daydata"
       THEN \E f \in LogFeeds : Serve("client", target, f)
       ELSE Serve("client", target, NoFeed)
  /\ served' = Append(served, ServedOf("do_GET", request'.target, request'.day, feed',
                                       built', response'))
  /\ UNCHANGED << today, page, selVars, sumVars, reqVars >>

\* A caller calls build_day_data(d) for any day, the feed doing f.
CallBuildDayData ==
  /\ Len(served) < MaxServed
  /\ \E d \in LogDates, f \in LogFeeds :
       \E b \in { Built(build_day_data(lists, d, f)) } :
         /\ served' = Append(served, ServedOf("build_day_data", << >>, d, f, b,
                                              Unanswered("")))
         /\ lists' = ContentAfter(lists, b)
  /\ UNCHANGED << srvVars, selVars, sumVars, reqVars >>

(* ------------------------------------------------------------------ *)
(* One request, step by step                                          *)
(* ------------------------------------------------------------------ *)

\* Most connections waiting in the listen queue of the server socket.
MaxQueued == 2

\* The targets the stepwise requests draw from.
ReqTargets == { << "/api/daydata" >>, << "/health" >> }

\* Two calls of urlopen at most: the fetch tried again after a failure.
FetchAttemptsRetry == 1 + 1

\* The calls of urlopen one fetch can make: one, outside any loop.
FetchAttempts == 1

\* One entry of trace: a selector call with its list and result, or one
\* call of urlopen.
PickEvent(k, res) == [op |-> "pick", list |-> PickOrder[k], res |-> res]
UrlopenEvent ==
  [op |-> "urlopen", list |-> "",
   res |-> [raised |-> "", seed |-> << >>, idx |-> << >>, ret |-> << >>]]

\* The calls of urlopen made so far for the request being served.
Urlopens(tr) == Cardinality({ k \in 1 .. Len(tr) : tr[k].op = "urlopen" })

\* A connection arrives and waits: TCPServer handles one request at a time.
Arrive ==
  /\ queued < MaxQueued
  /\ queued' = queued + 1
  /\ UNCHANGED << selVars, sumVars, srvVars, logVars, pc, trace, recvd >>

\* serve_forever takes the next connection; do_GET parses the path and,
\* for /api/daydata, reads date.today() and enters build_day_data.
Accept ==
  /\ pc = "idle"
  /\ queued > 0
  /\ queued' = queued - 1
  /\ \E target \in ReqTargets :
       /\ request' = [from |-> "client", target |-> target, day |-> today]
       /\ pc' = IF urlparse_path(target) = "/api/daydata" THEN "pick" ELSE "send"
  /\ feed' = NoFeed
  /\ built' = NotBuilt
  /\ response' = Unanswered("")
  /\ trace' = << >>
  /\ recvd' = 0
  /\ UNCHANGED << today, page, selVars, sumVars, logVars >>

\* The next of the seven selector calls.
PickStep ==
  /\ pc = "pick"
  /\ \E res \in { PickCall(lists, Len(trace) + 1, request.day) } :
       /\ trace' = Append(trace, PickEvent(Len(trace) + 1, res))
       /\ pc' = IF res.raised # "" THEN "send"
                ELSE IF Len(trace) + 1 = Len(PickOrder) THEN "fetch"
                ELSE "pick"
  /\ UNCHANGED << selVars, sumVars, srvVars, logVars, queued, recvd >>

\* try_fetch_wikimedia_onthisday calls urlopen; the feed does f. With
\* status 200 the body is read next, otherwise the fetch is over.
Open ==
  /\ pc = "fetch"
  /\ \E f \in FeedOutcomes :
       /\ feed' = f
       /\ pc' = IF f.open = "" /\ f.status = 200 THEN "read"
                ELSE IF Urlopens(trace) + 1 < FetchAttempts THEN "fetch"
                ELSE "send"
  /\ trace' = Append(trace, UrlopenEvent)
  /\ UNCHANGED << today, request, built, response, page, selVars, sumVars, logVars,
                  queued, recvd >>

\* resp.read() receives some bytes of the body, within timeout_s of the
\* socket operation before: the timeout starts anew.
RecvChunk ==
  /\ pc = "read"
  /\ recvd' = 1 - recvd
  /\ UNCHANGED << selVars, sumVars, srvVars, logVars, pc, trace, queued >>

\* resp.read() ends: the body is complete, or the read raises what the
\* feed makes it raise (a timeout: no byte for timeout_s).
ReadEnd ==
  /\ pc = "read"
  /\ pc' = "send"
  /\ UNCHANGED << selVars, sumVars, srvVars, logVars, trace, queued, recvd >>

\* The rest of the handler: the payload is normalised, the dict assembled,
\* serialised and sent, or the exception ends the request.
Finish ==
  /\ pc = "send"
  /\ \E r \in { do_GET(lists, request.target, request.day, feed) } :
       /\ built' = r.built
       /\ response' = r.response
       /\ lists' = ContentAfter(lists, r.built)
  /\ pc' = "idle"
  /\ UNCHANGED << today, request, feed, page, selVars, sumVars, served, trace,
                  queued, recvd >>

(* ------------------------------------------------------------------ *)
(* Specifications                                                     *)
(* ------------------------------------------------------------------ *)

SelIdle == proc = 0 /\ calls = << >>
SumIdle == sumIn = None /\ sumOut = NotCalled
SrvIdle ==
  /\ request = NoRequest /\ feed = NoFeed /\ built = NotBuilt
  /\ response = Unanswered("") /\ page = InitialCard
LogIdle == lists = CONTENT /\ served = << >>
ReqIdle == pc = "idle" /\ trace = << >> /\ queued = 0 /\ recvd = 0

\* The server: started on some day, nothing served yet.
Init == SelIdle /\ SumIdle /\ SrvIdle /\ LogIdle /\ ReqIdle /\ today \in Dates
Next == Get \/ LoadDayData \/ Midnight
Spec == Init /\ [][Next]_vars

\* The selector called in any order, across restarts.
InitSel == SelIdle /\ SumIdle /\ SrvIdle /\ LogIdle /\ ReqIdle /\ today = FirstDay
NextSel == CallPickDaily \/ CallPickDailyObj \/ Restart
SpecSel == InitSel /\ [][NextSel]_vars

\* One selector call on any prefix of a content list.
NextPick == PickDailyOnce \/ PickDailyObjOnce
SpecPick == InitSel /\ [][NextPick]_vars

\* The normaliser applied to one drawn body.
InitSum ==
  /\ SelIdle /\ SrvIdle /\ LogIdle /\ ReqIdle
  /\ today = FirstDay
  /\ sumIn \in ShapedBodies \cup OddBodies
  /\ sumOut = NotCalled
NextSum == CallSummarize
SpecSum == InitSum /\ [][NextSum]_vars

\* Requests and direct calls of build_day_data, logged.
NextLog == GetLogged \/ CallBuildDayData
SpecLog == InitSel /\ [][NextLog]_vars

\* Requests served step by step, one at a time, the others waiting. The
\* handler thread keeps running: a step it can take is taken in the end,
\* and read() either goes on receiving or ends. Nothing makes the feed
\* stop sending.
NextReq == Arrive \/ Accept \/ PickStep \/ Open \/ RecvChunk \/ ReadEnd \/ Finish
SpecReq ==
  /\ Init
  /\ [][NextReq]_vars
  /\ WF_vars(Accept) /\ WF_vars(PickStep) /\ WF_vars(Open)
  /\ WF_vars(RecvChunk \/ ReadEnd) /\ WF_vars(Finish)

(* ------------------------------------------------------------------ *)
(* Properties of the fetch and of the payload                         *)
(* ------------------------------------------------------------------ *)

\* The feed answered 200 with a body that decodes and parses.
FetchSucceeded(f) ==
  f.open = "" /\ f.status = 200 /\ f.read = "" /\ f.utf8 /\ f.json

\* The feed was asked during the last request.
FeedAsked == feed # NoFeed

\* build_day_data returned a document during the last request.
DayDataBuilt == built.called /\ built.raised = ""

\* The request failed with a non-200 status or a timeout.
RequestFailed(f) ==
  \/ f.open \in {"HTTPError", "TimeoutError"}
  \/ f.open = "" /\ f.status # 200
  \/ f.open = "" /\ f.status = 200 /\ f.read = "TimeoutError"

\* The record has non-empty text.
HasText(it) == it.isdict /\ "text" \in DOMAIN it.d /\ Truthy(it.d.text)

\* The feed answered with lists of records none of which has text.
AllDiscarded(f) ==
  /\ FetchSucceeded(f)
  /\ f.body.t = "dict"
  /\ DOMAIN f.body.d \cap {"events", "births"} # {}
  /\ \A key \in DOMAIN f.body.d \cap {"events", "births"} :
       /\ f.body.d[key].t = "list"
       /\ \A k \in 1 .. Len(f.body.d[key].items) : ~ HasText(f.body.d[key].items[k])

\* C1 (as claimed): try_fetch_wikimedia_onthisday never raises: whatever the
\* feed does, it returns; it returns None for every failure of the request,
\* and anything else it returns is the parsed body of a 200 response.
C1_FetchNeverRaises ==
  FeedAsked =>
    LET r == try_fetch_wikimedia_onthisday(feed) IN
      /\ r.raised = ""
      /\ ~ FetchSucceeded(feed) => r.ret = None
      /\ r.ret # None => FetchSucceeded(feed) /\ r.ret = feed.body

\* C2 (as claimed): after a failed request, or when every record is
\* discarded, on_this_day of the payload is the local fallback list of
\* exactly 3 bullets and the source is "local".
C2_PayloadHoldsFallback ==
  (FeedAsked /\ (RequestFailed(feed) \/ AllDiscarded(feed))) =>
    /\ DayDataBuilt
    /\ Len(built.doc.on_this_day) = 3
    /\ built.doc.on_this_day_source = "local"

\* C2 (amended): after a failed request, or when every record is discarded,
\* build_day_data returns a payload whose on_this_day is empty and whose
\* source is "local", the request is answered, and the page that loaded it
\* shows the fixed local fallback list of exactly 3 bullets.
C2_EmptyPayloadFallbackOnPage ==
  (FeedAsked /\ (RequestFailed(feed) \/ AllDiscarded(feed))) =>
    /\ DayDataBuilt
    /\ built.doc.on_this_day = << >>
    /\ built.doc.on_this_day_source = "local"
    /\ response.sent /\ response.body.doc = built.doc
    /\ request.from = "page" =>
         /\ page.list = LOCAL_FALLBACK
         /\ Len(page.list) = 3
         /\ page.tag = "local fallback"

\* C2 witness: the page loaded a payload built from a feed whose only record
\* has empty text, and shows the three local bullets.
C2_Witness ==
  /\ request.from = "page"
  /\ feed = FeedBody(EmptyTextFeed)
  /\ DayDataBuilt
  /\ page.list = LOCAL_FALLBACK

\* The path of the last request.
RequestPath == urlparse_path(request.target)

\* C3 (as claimed): GET /api/daydata is answered with status 200 and a JSON
\* document whatever the feed did, a 200 response of unexpected shape included.
C3_DayDataAlwaysAnswered ==
  (request # NoRequest /\ RequestPath = "/api/daydata") =>
    /\ response.sent
    /\ response.status = 200
    /\ response.body.kind = "json"

\* The bullet list build_day_data normalises from what the feed did (empty
\* when the fetch failed).
Normalized(f) == IF FetchSucceeded(f) THEN summarize_onthisday(f.body).out ELSE << >>

\* C8: in every payload built, on_this_day_source is "local" or "wikimedia";
\* it is "wikimedia" exactly when the fetch succeeded and the normalised
\* bullet list is non-empty, and on_this_day is then that list.
C8_SourceTagMatchesFetch ==
  DayDataBuilt =>
    /\ built.doc.on_this_day_source \in {"local", "wikimedia"}
    /\ built.doc.on_this_day_source = "wikimedia"
         <=> (FetchSucceeded(feed) /\ Normalized(feed) # << >>)
    /\ built.doc.on_this_day_source = "wikimedia"
         => built.doc.on_this_day = Normalized(feed)
    /\ built.doc.on_this_day_source = "local" => built.doc.on_this_day = << >>

\* C8 witness: a payload built from a feed with usable records, tagged
\* "wikimedia" and carrying the five bullets.
C8_Witness ==
  /\ DayDataBuilt
  /\ feed = FeedBody(FullFeed)
  /\ built.doc.on_this_day_source = "wikimedia"
  /\ Len(built.doc.on_this_day) = 5

\* The documented fields of the payload.
DocumentedFields ==
  { "date", "safe_disclaimer", "new_mom_tip", "devops_fact", "anime_vibe",
    "cat_corner", "kind_reminder", "power_couple_challenge", "fun_fact",
    "on_this_day", "on_this_day_source" }

\* The ISO-8601 strings of the days of the model, written out.
Iso8601(d) ==
  CASE d = [year |-> 2024, month |-> 1,  day |-> 1]  -> "2024-01-01"
    [] d = [year |-> 2024, month |-> 1,  day |-> 2]  -> "2024-01-02"
    [] d = [year |-> 2024, month |-> 7,  day |-> 20] -> "2024-07-20"
    [] d = [year |-> 2024, month |-> 12, day |-> 31] -> "2024-12-31"

\* C9: every document build_day_data returns has exactly the documented
\* fields, its date is the ISO-8601 string of the day of the request, and its
\* safe_disclaimer is the one fixed, non-empty string.
C9_DocumentSchema ==
  DayDataBuilt =>
    /\ DOMAIN built.doc = DocumentedFields
    /\ built.doc.date = Iso8601(request.day)
    /\ built.doc.safe_disclaimer = SAFE_DISCLAIMER
    /\ built.doc.safe_disclaimer # ""

\* C9 witness: a document built on 2 January 2024 while the feed was down.
C9_Witness ==
  /\ DayDataBuilt
  /\ feed = FeedRaises("URLError")
  /\ request.day = [year |-> 2024, month |-> 1, day |-> 2]
  /\ built.doc.date = "2024-01-02"

\* C10 (as claimed): every GET is answered, with Cache-Control: no-store, and
\* the answer is fixed by the path alone: 200 and "ok" for /health, 200 and
\* the static document for / and /index.html, 200 and JSON for /api/daydata,
\* not found for any other path.
C10_RoutingTotal ==
  request # NoRequest =>
    /\ response.sent
    /\ response.headers.CacheControl = "no-store"
    /\ CASE RequestPath = "/health" ->
              response.status = 200 /\ response.body = TextBody("ok\n")
         [] RequestPath \in {"/", "/index.html"} ->
              response.status = 200 /\ response.body = HtmlPage
         [] RequestPath = "/api/daydata" ->
              response.status = 200 /\ response.body.kind = "json"
         [] OTHER -> response.status = 404

(* ------------------------------------------------------------------ *)
(* Properties of the selector                                         *)
(* ------------------------------------------------------------------ *)

\* C4: pick_daily and pick_daily_obj are deterministic in the date: any two
\* calls of the same function on the same list with dates of the same ISO
\* string return the same item, whatever was called before or between them
\* and whichever process served them.
C4_PickDeterministic ==
  \A i, j \in 1 .. Len(calls) :
    (/\ calls[i].fn = calls[j].fn
     /\ calls[i].items = calls[j].items
     /\ calls[i].iso = calls[j].iso)
    => calls[i].res = calls[j].res

\* C4 witness: the same pick was made before and after a restart, with a
\* pick of another day between them, and both returned the same item.
C4_Witness ==
  /\ Len(calls) = 3
  /\ calls[1].fn = calls[3].fn /\ calls[1].items = calls[3].items
  /\ calls[1].iso = calls[3].iso
  /\ calls[2].iso # calls[1].iso
  /\ calls[1].proc # calls[3].proc
  /\ calls[1].res.raised = "" /\ calls[1].res.ret = calls[3].res.ret

\* The neutral value of each selector.
Neutral(fn) == IF fn = "pick_daily" THEN << "" >> ELSE << EmptyDict >>

\* C5: for a non-empty list the index lies in [0, len(list)) and the item
\* returned is list[index]; for an empty list no index is computed and the
\* neutral value is returned; neither call raises.
C5_IndexInRange ==
  \A k \in 1 .. Len(calls) :
    LET c == calls[k] IN
      /\ c.res.raised = ""
      /\ c.items # << >> =>
           /\ Len(c.res.idx) = 1
           /\ c.res.idx[1] >= 0 /\ c.res.idx[1] < Len(c.items)
           /\ c.res.ret = << c.items[c.res.idx[1] + 1] >>
      /\ c.items = << >> =>
           /\ c.res.idx = << >>
           /\ c.res.ret = Neutral(c.fn)

\* C5 witness: a pick from the seven DevOps facts returned the last of them
\* (index 6, the largest the list allows).
C5_Witness ==
  /\ Len(calls) = 1
  /\ calls[1].items = DEVOPS_FACTS
  /\ calls[1].res.idx = << 6 >>
  /\ calls[1].res.ret = << "You build it, you run it" >>

(* ------------------------------------------------------------------ *)
(* Properties of the normaliser                                       *)
(* ------------------------------------------------------------------ *)

\* The positions of the records of items that have non-empty text.
KeptAt(items) == { k \in 1 .. Len(items) : HasText(items[k]) }

\* The j-th smallest member of a set of positions.
Nth(S, j) == CHOOSE k \in S : Cardinality({ m \in S : m < k }) = j - 1

\* How many records of items reach the output under the cap.
Taken(items, cap) ==
  IF Cardinality(KeptAt(items)) < cap THEN Cardinality(KeptAt(items)) ELSE cap

\* The records of a member of the body ("events", "births"), when it is a list.
RecordsOf(body, key) ==
  IF body.t = "dict" /\ key \in DOMAIN body.d /\ body.d[key].t = "list"
  THEN body.d[key].items ELSE << >>

\* summarize_onthisday was called on sumIn, a body of the documented shape
\* (an object whose "events" and "births", when present, are lists), and returned.
Summarized ==
  /\ sumOut.called /\ sumOut.raised = ""
  /\ sumIn.t = "dict"
  /\ \A key \in DOMAIN sumIn.d \cap {"events", "births"} : sumIn.d[key].t = "list"

\* C6: the output is the first 3 "events" records with non-empty text, in
\* feed order, followed by the first 2 "births" records with non-empty text,
\* in feed order: filtering comes before the cut, no record without text
\* appears, and there are at most 3 event and 2 birth bullets.
C6_FilterThenTruncate ==
  Summarized =>
    LET es == RecordsOf(sumIn, "events")
        bs == RecordsOf(sumIn, "births")
        ne == Taken(es, 3)
        nb == Taken(bs, 2)
        out == sumOut.out
    IN  /\ Len(out) = ne + nb
        /\ \A j \in 1 .. ne :
             out[j].kind = JStr("event") /\ out[j].text = es[Nth(KeptAt(es), j)].d.text
        /\ \A j \in 1 .. nb :
             /\ out[ne + j].kind = JStr("birth")
             /\ out[ne + j].text = bs[Nth(KeptAt(bs), j)].d.text
        /\ \A j \in 1 .. Len(out) : Truthy(out[j].text)
        /\ Cardinality({ j \in 1 .. Len(out) : out[j].kind = JStr("event") }) <= 3
        /\ Cardinality({ j \in 1 .. Len(out) : out[j].kind = JStr("birth") }) <= 2

\* C6 witness: four events of which the first has no text and three births
\* of which the first has none: the output is events 2, 3, 4 and births 2, 3.
C6_Witness ==
  /\ Summarized
  /\ RecordsOf(sumIn, "events") = << EmptyText, NoYear, MoonLanding, NoYear >>
  /\ RecordsOf(sumIn, "births") = << NoText, BornB, BornA >>
  /\ Len(sumOut.out) = 5
  /\ sumOut.out[2].text = JStr("Moon landing")
  /\ sumOut.out[4].text = JStr("Born B")

\* The year of a record: None when it has none.
YearOf(it) == IF "year" \in DOMAIN it.d THEN it.d.year ELSE JNull

\* C7: every bullet has exactly the fields kind, year and text; kind is
\* "event" for a record of "events" and "birth" for a record of "births",
\* year is the record's year, or null when it has none, and text is the
\* record's text unchanged. The feed with the one event (1969, "Moon
\* landing") and no births yields exactly that one event bullet.
C7_BulletFields ==
  Summarized =>
    LET es == RecordsOf(sumIn, "events")
        bs == RecordsOf(sumIn, "births")
        ne == Taken(es, 3)
        out == sumOut.out
    IN  /\ \A j \in 1 .. Len(out) :
             /\ DOMAIN out[j] = {"kind", "year", "text"}
             /\ LET it == IF j <= ne THEN es[Nth(KeptAt(es), j)]
                          ELSE bs[Nth(KeptAt(bs), j - ne)]
                IN  /\ out[j].kind = JStr(IF j <= ne THEN "event" ELSE "birth")
                    /\ out[j].year = YearOf(it)
                    /\ out[j].text = it.d.text
        /\ sumIn = MoonFeed =>
             out = << [kind |-> JStr("event"), year |-> JInt(1969),
                       text |-> JStr("Moon landing")] >>

\* C7 witness: the documented example was summarised to its one bullet.
C7_Witness ==
  /\ Summarized
  /\ sumIn = MoonFeed
  /\ Len(sumOut.out) = 1
  /\ sumOut.out[1].year = JInt(1969)

(* ------------------------------------------------------------------ *)
(* Properties of one request and of requests in sequence              *)
(* ------------------------------------------------------------------ *)

\* The selector calls made so far for the request being served.
PickEvents == { k \in 1 .. Len(trace) : trace[k].op = "pick" }

\* The calls of _seed_for_date made so far for the request being served.
SeedsDerived == Cardinality({ k \in PickEvents : trace[k].res.seed # << >> })

\* The selector calls made so far on the list called name.
PicksFrom(name) == Cardinality({ k \in PickEvents : trace[k].list = name })

\* The /api/daydata request being served is over, whatever it did.
DayDataRequestOver == pc = "idle" /\ built.called

\* The /api/daydata request being served is over and built its document.
DayDataRequestDone == DayDataRequestOver /\ built.raised = ""

\* The key of the document that holds the pick from each list.
FieldOf ==
  [ NEW_MOM_TIPS            |-> "new_mom_tip",
    DEVOPS_FACTS            |-> "devops_fact",
    COZY_ANIME_VIBES        |-> "anime_vibe",
    POWER_COUPLE_CHALLENGES |-> "power_couple_challenge",
    CAT_CORNER              |-> "cat_corner",
    LOCAL_FUN_FACTS         |-> "fun_fact",
    KIND_REMINDERS          |-> "kind_reminder" ]

\* The number four hexadecimal digits write.
Hex4(h, from) == ((h[from] * 16 + h[from + 1]) * 16 + h[from + 2]) * 16 + h[from + 3]

\* s mod n for the 32-bit number s the eight digits h write, from its two
\* 16-bit halves: s = hi * 65536 + lo.
SeedMod(h, n) == ((Hex4(h, 1) % n) * (65536 % n) + (Hex4(h, 5) % n)) % n

\* Every field of the document holds list[s mod len(list)] for the digits
\* h of s, and lists of equal length are picked at the same index.
PickedBySeed(h) ==
  /\ \A name \in DOMAIN FieldOf :
       built.doc[FieldOf[name]] = CONTENT[name][SeedMod(h, Len(CONTENT[name])) + 1]
  /\ \A j, k \in PickEvents :
       Len(CONTENT[trace[j].list]) = Len(CONTENT[trace[k].list])
         => trace[j].res.idx = trace[k].res.idx

\* C11 as stated: a request that built its document derived the seed
\* once, and every selected field is list[s mod len(list)] for that seed s,
\* lists of equal length being picked at the same index.
C11_SeedDerivedOncePerRequest ==
  DayDataRequestDone =>
    /\ SeedsDerived = 1
    /\ \E k \in PickEvents :
         trace[k].res.seed # << >> /\ PickedBySeed(trace[k].res.seed[1])

\* C11 amended: a request that built its document derived the seed seven
\* times, once in each selector call, every time from the request's date
\* and so with one value s; every selected field is list[s mod len(list)]
\* and lists of equal length are picked at the same index.
C11_SeedRederivedSameValue ==
  DayDataRequestDone =>
    /\ SeedsDerived = Len(PickOrder)
    /\ \A j, k \in PickEvents : trace[j].res.seed = trace[k].res.seed
    /\ \A k \in PickEvents :
         /\ trace[k].res.seed = << SHA256_HEX8[isoformat(request.day)] >>
         /\ PickedBySeed(trace[k].res.seed[1])

\* A request of 20 July built its document: the two lists of four items
\* and the two lists of six are each picked at one index, the others at
\* other indexes.
C11_Witness ==
  /\ DayDataRequestDone
  /\ isoformat(request.day) = "2024-07-20"
  /\ SeedsDerived = 7
  /\ built.doc.cat_corner = CAT_CORNER[2] /\ built.doc.kind_reminder = KIND_REMINDERS[2]
  /\ built.doc.anime_vibe = COZY_ANIME_VIBES[4] /\ built.doc.fun_fact = LOCAL_FUN_FACTS[4]
  /\ built.doc.new_mom_tip = NEW_MOM_TIPS[6]

\* C12: while an /api/daydata request is served urlopen is called at most
\* once and each content list is picked from at most once; when the
\* request is over, whatever its outcome, urlopen was called exactly once
\* and each of the seven lists was picked from exactly once.
C12_FeedAskedOnceListsPickedOnce ==
  /\ Urlopens(trace) <= 1
  /\ \A name \in DOMAIN CONTENT : PicksFrom(name) <= 1
  /\ DayDataRequestOver =>
       /\ Urlopens(trace) = 1
       /\ \A name \in DOMAIN CONTENT : PicksFrom(name) = 1

\* A request is over whose one call of urlopen failed: the local result
\* was sent after seven picks and one call of urlopen.
C12_Witness ==
  /\ DayDataRequestOver
  /\ feed = FeedRaises("URLError")
  /\ response.sent /\ response.body.doc.on_this_day_source = "local"
  /\ Len(trace) = 8 /\ Urlopens(trace) = 1

\* The logged calls of build_day_data that returned a document.
Documents == { k \in 1 .. Len(served) : served[k].built.called /\ served[k].built.raised = "" }

\* The keys of the document that the feed decides.
FeedFields == { "on_this_day", "on_this_day_source" }

\* C13: any two calls of build_day_data for the same date with the same
\* feed outcome do the same and return identical documents, whatever was
\* served in between, and two documents of the same date differ at most
\* in on_this_day and on_this_day_source.
C13_SameDaySameDocument ==
  \A j, k \in 1 .. Len(served) :
    (served[j].built.called /\ served[k].built.called /\ served[j].day = served[k].day)
      => /\ served[j].feed = served[k].feed => served[j].built = served[k].built
         /\ (j \in Documents /\ k \in Documents)
              => \A key \in DOMAIN served[j].built.doc \ FeedFields :
                   served[j].built.doc[key] = served[k].built.doc[key]

\* Two calls for 1 January with the same feed outcome returned the same
\* document, a call for another day with another outcome served between
\* them returned a document that differs from theirs.
C13_Witness ==
  /\ Len(served) = 3
  /\ served[1].day = served[3].day /\ served[2].day # served[1].day
  /\ served[1].feed = FeedBody(MoonFeed) /\ served[3].feed = FeedBody(MoonFeed)
  /\ served[2].feed = FeedRaises("URLError")
  /\ Documents = {1, 2, 3}
  /\ served[1].built.doc = served[3].built.doc
  /\ served[1].built.doc.on_this_day_source = "wikimedia"
  /\ served[2].built.doc.devops_fact # served[1].built.doc.devops_fact

\* C14: after any sequence of requests and calls every content list is as
\* the module defines it, the challenge records included, and each logged
\* request got the response it gets alone, from the lists as defined, for
\* its date and its feed outcome.
C14_NoSharedMutableState ==
  /\ lists = CONTENT
  /\ \A k \in 1 .. Len(served) :
       served[k].by = "do_GET" =>
         served[k].response =
           do_GET(CONTENT, served[k].target, served[k].day, served[k].feed).response

\* Three /api/daydata requests were served in a row, each sending the
\* day's challenge; the third got what the first got.
C14_Witness ==
  /\ Len(served) = 3
  /\ \A k \in 1 .. 3 :
       /\ served[k].by = "do_GET" /\ served[k].target = << "/api/daydata" >>
       /\ served[k].response.sent
       /\ served[k].response.body.doc.power_couple_challenge \in
            { POWER_COUPLE_CHALLENGES[i] : i \in 1 .. Len(POWER_COUPLE_CHALLENGES) }
  /\ served[1].feed = served[3].feed /\ served[2].feed # served[1].feed
  /\ served[3].response = served[1].response

\* C15: every request the handler has taken is answered or dropped in the
\* end, so that the server takes the next one.
C15_EveryRequestCompletes == (pc # "idle") ~> (pc = "idle")

====
